---- MODULE Spec2Model ----
(***************************************************************************)
(* Cerelog X8 host driver (Cerelog_X8 session + read thread) and the data  *)
(* packet format of the ADS1299 firmware.                                  *)
(*                                                                         *)
(* Two revisions of the host driver are kept in the repository; the model  *)
(* carries both and the variable rev says which one a behaviour runs:      *)
(*   "part_001"  src/unnamed/part_001 (the "definitive" cerelog.cpp)       *)
(*   "part_000"  src/unnamed/part_000, second revision (lines 659-1649)    *)
(*                                                                         *)
(* Specifications:                                                         *)
(*   Spec        the session calls interleaved with the read thread        *)
(*   SpecDecode  the read thread fed garbage and two packets               *)
(*   SpecNoise   the read thread fed a packet with one bit flipped         *)
(*   SpecDevice  the firmware: setup, loop, handshake detection            *)
(*   SpecArrival the firmware and the line to it, bytes arriving in part   *)
(*   SpecBaud    the baud-rate tables of host and firmware, every byte     *)
(***************************************************************************)
EXTENDS Integers, Sequences, FiniteSets, TLC

(***************************************************************************)
(* Bounds of the model                                                     *)
(***************************************************************************)
\* longest garbage prefix put in front of the two packets (SpecDecode)
MaxGarbage == 2
\* most packets the device sends in a session behaviour (Spec)
MaxPackets == 2
\* most packets the device is watched to write (SpecDevice)
MaxSent == 2
\* most seconds that pass behind a timestamp reference (SpecDevice)
MaxElapsed == 1
\* most handshakes a host sends in one power cycle of the device (SpecDevice)
MaxHandshakes == 3
\* bytes of noise on the line in front of the first handshake (SpecDevice)
NoiseLen == 9
\* bytes of the line the UART has received when the sketch looks in the
\* middle of an arrival (SpecDevice)
FirstBytes == 3

(***************************************************************************)
(* Program constants                                                       *)
(***************************************************************************)
PACKET_TOTAL_SIZE == 37
START_MARKER_B1 == 171
START_MARKER_B2 == 205
END_MARKER_B1 == 220
END_MARKER_B2 == 186
PACKET_IDX_LENGTH == 2
PACKET_IDX_TIMESTAMP == 3
PACKET_IDX_ADS1299_DATA == 7
ADS1299_TOTAL_DATA_BYTES == 27
PACKET_IDX_CHECKSUM == 34
PACKET_IDX_END_MARKER == 35
PACKET_MSG_LENGTH == 31
READ_CHUNK_SIZE == 74
READ_CHUNK_001 == 2048
MAX_CONSECUTIVE_FAILURES == 1000
DEFAULT_BAUDRATE == 9600
TARGET_BAUDRATE == 115200
MSG_TYPE_TIMESTAMP == 2
RING_BUFFER_SIZE == 24
handshake_packet_size == 12
ring_tail == 0
baud_config == 4

Revisions == {"part_001", "part_000"}

(***************************************************************************)
(* Bytes and byte arithmetic                                               *)
(***************************************************************************)
\* buf[i] of the C++ code: offsets are 0-based there, 1-based in a sequence
At(buf, i) == buf[i + 1]

\* uint8_t sum of buf[lo..hi-1]: the accumulator wraps at every addition
RECURSIVE Sum8(_, _, _)
Sum8(buf, lo, hi) ==
    IF lo >= hi THEN 0 ELSE (Sum8(buf, lo, hi - 1) + At(buf, hi - 1)) % 256

Take(s, n) == SubSeq(s, 1, n)
Drop(s, n) == SubSeq(s, n + 1, Len(s))

RECURSIVE Zeros(_)
Zeros(n) == IF n = 0 THEN <<>> ELSE Append(Zeros(n - 1), 0)

\* all sequences over S of length at most n
RECURSIVE SeqsUpTo(_, _)
SeqsUpTo(S, n) ==
    IF n = 0 THEN {<<>>}
    ELSE LET shorter == SeqsUpTo(S, n - 1)
         IN shorter \cup {Append(s, b) : s \in {t \in shorter : Len(t) = n - 1}, b \in S}

(***************************************************************************)
(* Device side: the DataPacket the firmware writes (loop)                  *)
(***************************************************************************)
\* a uint32_t is kept as its two 16-bit halves (the integers of TLC are
\* 32-bit signed): value = hi * 65536 + lo
U32(hi, lo) == [hi |-> hi, lo |-> lo]

\* DevicePacket with a slip: the checksum loop starts behind the length byte
DevicePacket_sum_skips_length(timestamp, raw_data) ==
    LET head == << 171, 205, PACKET_MSG_LENGTH,
                   (timestamp.hi \div 256) % 256, timestamp.hi % 256,
                   (timestamp.lo \div 256) % 256, timestamp.lo % 256 >>
        body == head \o raw_data
    IN body \o << Sum8(body, PACKET_IDX_TIMESTAMP, PACKET_IDX_CHECKSUM), 220, 186 >>

\* DevicePacket with a slip: the length byte counts the ADC bytes only
DevicePacket_length_of_data(timestamp, raw_data) ==
    LET head == << 171, 205, ADS1299_TOTAL_DATA_BYTES,
                   (timestamp.hi \div 256) % 256, timestamp.hi % 256,
                   (timestamp.lo \div 256) % 256, timestamp.lo % 256 >>
        body == head \o raw_data
    IN body \o << Sum8(body, PACKET_IDX_LENGTH, PACKET_IDX_CHECKSUM), 220, 186 >>

\* packet[] as loop() fills it from the 32-bit timestamp and the 27 raw bytes
DevicePacket(timestamp, raw_data) ==
    LET head == << 171, 205, PACKET_MSG_LENGTH,
                   (timestamp.hi \div 256) % 256, timestamp.hi % 256,
                   (timestamp.lo \div 256) % 256, timestamp.lo % 256 >>
        body == head \o raw_data
    IN body \o << Sum8(body, PACKET_IDX_LENGTH, PACKET_IDX_CHECKSUM), 220, 186 >>

(***************************************************************************)
(* Host side: one candidate position of the scan in read_thread            *)
(***************************************************************************)
IsStartMarker(buf, pos) ==
    At(buf, pos) = START_MARKER_B1 /\ At(buf, pos + 1) = START_MARKER_B2

\* calculated_checksum with a slip: the loop stops one byte early
calculated_checksum_stops_early(buf, pos) == Sum8(Drop(buf, pos), 2, 33)

calculated_checksum(buf, pos) == Sum8(Drop(buf, pos), 2, 34)

ChecksumOk(buf, pos) == calculated_checksum(buf, pos) = At(buf, pos + 34)

EndMarkerOk(buf, pos) ==
    /\ At(buf, pos + PACKET_IDX_END_MARKER) = END_MARKER_B1
    /\ At(buf, pos + PACKET_IDX_END_MARKER + 1) = END_MARKER_B2

\* part_001: start marker and checksum decide; the end marker is not looked at
Accepts001(buf, pos) == IsStartMarker(buf, pos) /\ ChecksumOk(buf, pos)

\* part_000: start marker, checksum, then end marker
Accepts000(buf, pos) ==
    IsStartMarker(buf, pos) /\ ChecksumOk(buf, pos) /\ EndMarkerOk(buf, pos)

Accepts(r, buf, pos) ==
    IF r = "part_001" THEN Accepts001(buf, pos) ELSE Accepts000(buf, pos)

\* SignExtend24 with a slip: no extension
SignExtend24_none(value) == value

\* the sign extension: if (value & 0x00800000) value |= 0xFF000000. value has
\* no bit above bit 23, so or-ing the int32_t pattern 0xFF000000 (-16777216)
\* adds it
SignExtend24(value) ==
    IF (value \div 8388608) % 2 = 1 THEN value + (-16777216) ELSE value

board_timestamp(buf, pos) ==
    U32(At(buf, pos + 3) * 256 + At(buf, pos + 4), At(buf, pos + 5) * 256 + At(buf, pos + 6))

\* ChannelValue with a slip: the three bytes are taken low byte first
ChannelValue_low_byte_first(buf, pos, ch) ==
    LET idx == pos + 7 + 3 + (ch * 3)
    IN SignExtend24(At(buf, idx + 2) * 65536 + At(buf, idx + 1) * 256 + At(buf, idx))

ChannelValue(buf, pos, ch) ==
    LET idx == pos + 7 + 3 + (ch * 3)
    IN SignExtend24(At(buf, idx) * 65536 + At(buf, idx + 1) * 256 + At(buf, idx + 2))

\* the row handed to push_package, in raw units: the packet timestamp and the
\* eight signed ADC codes (marker slot is the constant 0)
DecodeSample(buf, pos) ==
    [ ts |-> board_timestamp(buf, pos),
      ch |-> [c \in 1..8 |-> ChannelValue(buf, pos, c - 1)],
      marker |-> 0 ]

(***************************************************************************)
(* Input pools                                                             *)
(***************************************************************************)
\* 3 status bytes, then 8 channels of 3 bytes: 0x000001, 0x7FFFFF, 0x800000,
\* 0xFFFFFF and four zero channels
RawPlain ==
    << 192, 0, 0,  0, 0, 1,  127, 255, 255,  128, 0, 0,  255, 255, 255 >> \o Zeros(12)

\* raw bytes 0..24 zero, byte 25 = 0x97: behind the two bytes AB CD the
\* packet offers a window whose checksum byte fits but whose end marker does not
RawTrickyA == Zeros(25) \o << 151, 0 >>

\* byte 0 = 0x14, byte 25 = 0xAB, byte 26 = 0xDC, checksum 0xBA: behind AB CD
\* the window has a fitting checksum byte and the bytes DC BA at offsets 35, 36
RawTrickyB == << 20 >> \o Zeros(24) \o << 171, 220 >>

\* timestamps 1500000001 (0x59682F01), 1500000002 and 0
PlainA == [ts |-> U32(22888, 12033), raw |-> RawPlain]
PlainB == [ts |-> U32(22888, 12034), raw |-> RawPlain]
TrickyA == [ts |-> U32(0, 0), raw |-> RawTrickyA]
TrickyB == [ts |-> U32(0, 0), raw |-> RawTrickyB]

\* channels 0x400000, 0x7FFFFE, 0x800001, 0xC00000, 0xFFFFFE, 0x00FFFF,
\* 0xFF0000 and 0x000100, timestamp 0xFFFFFFFF
RawMixed ==
    << 192, 0, 0,  64, 0, 0,  127, 255, 254,  128, 0, 1,  192, 0, 0,
       255, 255, 254,  0, 255, 255,  255, 0, 0,  0, 1, 0 >>
Mixed == [ts |-> U32(65535, 65535), raw |-> RawMixed]

PacketPool == {PlainA, TrickyA, TrickyB, Mixed}
GarbageBytes == {0, 171, 205}
\* garbage longer than a packet and longer than the read_buffer of part_000;
\* the second one ends in the first byte of a start marker
LongGarbage == {Zeros(36), Zeros(99) \o << 171 >>}
GarbagePool == SeqsUpTo(GarbageBytes, MaxGarbage) \cup LongGarbage

\* sizes a transport read may return when avail bytes are pending and the
\* caller asked for at most cap bytes: one of the sizes in choices or all
\* that fits
ReadSizes(choices, avail, cap) ==
    LET most == IF avail < cap THEN avail ELSE cap
    IN {n \in 1..most : n \in choices \/ n = most}

\* the decoder is fed byte by byte, packet by packet and all at once; the
\* session is fed 37 bytes at a time and all at once
DecodeChunks == {1, PACKET_TOTAL_SIZE}
SessionChunks == {PACKET_TOTAL_SIZE}

RECURSIVE WireOf(_)
WireOf(pkts) ==
    IF pkts = <<>> THEN <<>>
    ELSE DevicePacket(Head(pkts).ts, Head(pkts).raw) \o WireOf(Tail(pkts))

\* what the sender put into a packet, as the row the host should deliver
Signed24(code) == IF code < 8388608 THEN code ELSE code - 16777216
TrueSample(p) ==
    [ ts |-> p.ts,
      ch |-> [c \in 1..8 |->
                Signed24(p.raw[3 * c + 1] * 65536 + p.raw[3 * c + 2] * 256 + p.raw[3 * c + 3])],
      marker |-> 0 ]

RECURSIVE TrueSamples(_)
TrueSamples(pkts) ==
    IF pkts = <<>> THEN <<>> ELSE <<TrueSample(Head(pkts))>> \o TrueSamples(Tail(pkts))

(***************************************************************************)
(* The device descriptor board_descr["default"]                            *)
(***************************************************************************)
DescrKeys == {"num_rows", "eeg_channels", "timestamp_channel", "marker_channel"}

\* find (key) != end () for the four keys read_thread needs
DescrComplete(d) == DescrKeys \subseteq d.keys

InRows(d, idx) == idx >= 0 /\ idx < d.num_rows

\* the checks of part_000 behind the key checks: the two channel indices,
\* eeg_channels.size () >= 8, and the first eight EEG indices
DescrIndicesOk(d) ==
    /\ InRows(d, d.timestamp_channel) /\ InRows(d, d.marker_channel)
    /\ Len(d.eeg_channels) >= 8
    /\ \A i \in 1..8 : InRows(d, d.eeg_channels[i])

DescrValid(d) == DescrComplete(d) /\ DescrIndicesOk(d)

GoodDescr ==
    [keys |-> DescrKeys, num_rows |-> 11, eeg_channels |-> <<1, 2, 3, 4, 5, 6, 7, 8>>,
     timestamp_channel |-> 9, marker_channel |-> 10]
\* marker_channel is not in the descriptor
DescrNoMarker == [GoodDescr EXCEPT !.keys = DescrKeys \ {"marker_channel"}]
\* seven EEG channel indices
DescrFewChannels == [GoodDescr EXCEPT !.eeg_channels = <<1, 2, 3, 4, 5, 6, 7>>]
\* the eighth EEG channel index is num_rows
DescrBadIndex == [GoodDescr EXCEPT !.eeg_channels = <<1, 2, 3, 4, 5, 6, 7, 11>>]

DescrPool == {GoodDescr, DescrNoMarker, DescrFewChannels, DescrBadIndex}

(***************************************************************************)
(* State                                                                   *)
(***************************************************************************)
VARIABLES
    rev,            \* which revision of the driver runs
    serial,         \* the OSSerial object serial points to (alloc = FALSE: NULL)
    is_streaming, keep_alive, initialized, state,
    c_pc,           \* where the caller is: idle or blocked inside a call
    mtx,            \* owner of the mutex m
    rt_pc,          \* where the read thread is; "none": streaming_thread not joinable
    buffer,         \* scan buffer (part_000: the first buffer_len bytes of read_buffer)
    buffer_pos,
    consecutive_read_failures,
    wire,           \* bytes the device has sent and the host has not read yet
    samples,        \* rows handed to push_package, in order
    accepted,       \* the 37-byte windows those rows were decoded from
    input,          \* what the device was given to send
    rt_decoded,     \* the running read thread has delivered a row
    rt_gotdata,     \* the running read thread has read at least one byte
    last,           \* the call that returned last and what it returned
    terminated,     \* std::terminate: a thread was assigned over a joinable one
    \* the device (firmware)
    dev_pc,         \* "setup": before the waitForTimestamp of setup (); "loop"
    ring_buffer, ring_head, ring_counter,
    unix_timestamp_reference, timestamp_initialized,
    elapsed,        \* (millis () - _millis_reference) / 1000
    baud_rate,      \* Serial.baudRate ()
    dataReady,
    rx,             \* bytes the UART has received and Serial.read () has not taken
    line,           \* bytes sent to the device that its UART has not received yet
    handshakes      \* the handshake packets the host has sent, in order

session == <<serial, is_streaming, keep_alive, initialized, state>>
thread == <<rt_pc, buffer, buffer_pos, consecutive_read_failures, rt_decoded, rt_gotdata>>
sink == <<samples, accepted>>
device == <<dev_pc, ring_buffer, ring_head, ring_counter, unix_timestamp_reference,
            timestamp_initialized, elapsed, baud_rate, dataReady, rx, line, handshakes>>
vars == <<rev, session, c_pc, mtx, thread, wire, sink, input, last, terminated, device>>

\* serial == NULL, and an OSSerial object: whether its port is open and the
\* baud rate the port was last set to (0: never set)
NULL == [alloc |-> FALSE, open |-> FALSE, baud |-> 0]
OSSerial(open, baud) == [alloc |-> TRUE, open |-> open, baud |-> baud]

\* op, code: the call and its return value; spawned: a start_stream that
\* started a read thread; decoded, nodata: what that thread had done when the
\* call returned; was_init: a release_session of an initialized session;
\* effects: what that release_session stopped and freed; again: the call
\* before this one was a call of the same operation; verified: a
\* prepare_session whose read after the switch to the target rate returned a
\* chunk holding the pair AB CD; steps: the transport calls a prepare_session
\* made, in the order it made them, the failing one last
NoCall == [op |-> "none", code |-> "none", spawned |-> FALSE, decoded |-> FALSE,
           nodata |-> FALSE, was_init |-> FALSE, effects |-> {}, again |-> FALSE,
           verified |-> FALSE, steps |-> <<>>]
Returned(op, code) == [NoCall EXCEPT !.op = op, !.code = code, !.again = (last.op = op)]

joinable == rt_pc # "none"

\* Cerelog_X8::Cerelog_X8
Constructed ==
    /\ serial = NULL
    /\ is_streaming = FALSE /\ keep_alive = FALSE /\ initialized = FALSE
    /\ state = "SYNC_TIMEOUT_ERROR"
    /\ c_pc = "idle" /\ mtx = "free"
    /\ rt_pc = "none" /\ buffer = <<>> /\ buffer_pos = 0
    /\ consecutive_read_failures = 0
    /\ rt_decoded = FALSE /\ rt_gotdata = FALSE
    /\ samples = <<>> /\ accepted = <<>>
    /\ last = NoCall /\ terminated = FALSE

(***************************************************************************)
(* The read thread                                                         *)
(***************************************************************************)
\* what read_thread checks before its loop: part_001 the serial pointer,
\* part_000 the serial pointer and the descriptor
EntryChecksPass ==
    /\ serial.alloc
    /\ rev = "part_000" => DescrValid(input.descr)

\* part_001 reads the descriptor and writes package[] unchecked: a const
\* operator[] on a key that is not there, eeg_channels[ch] behind the end of
\* the vector and package[idx] behind its end are undefined. The build either
\* goes on as if nothing had happened or the process dies here.
rt_fault ==
    /\ rev = "part_001"
    /\ \/ rt_pc = "entry" /\ serial.alloc /\ ~DescrComplete(input.descr)
       \/ /\ rt_pc = "scan" /\ ~DescrValid(input.descr)
          /\ Len(buffer) >= buffer_pos + PACKET_TOTAL_SIZE
          /\ Accepts(rev, buffer, buffer_pos)
    /\ rt_pc' = "crashed"
    /\ c_pc' = "dead"
    /\ UNCHANGED <<rev, device, session, mtx, buffer, buffer_pos, consecutive_read_failures,
                   rt_decoded, rt_gotdata, wire, sink, input, last, terminated>>

\* entry of read_thread: the checks before the loop; locals are fresh
rt_entry ==
    /\ rt_pc = "entry"
    /\ IF EntryChecksPass
       THEN rt_pc' = "loop" /\ UNCHANGED state
       ELSE /\ mtx = "free"
            /\ state' = "BOARD_NOT_READY_ERROR"
            /\ rt_pc' = "done"
    /\ UNCHANGED <<rev, device, serial, is_streaming, keep_alive, initialized, c_pc, mtx,
                   buffer, buffer_pos, consecutive_read_failures, rt_decoded, rt_gotdata,
                   wire, sink, input, last, terminated>>

\* while (keep_alive); part_000 first moves the unconsumed bytes to the front
rt_loop ==
    /\ rt_pc = "loop"
    /\ IF ~keep_alive
       THEN rt_pc' = "done" /\ UNCHANGED <<buffer, buffer_pos>>
       ELSE /\ rt_pc' = "read"
            /\ IF rev = "part_001"
               THEN UNCHANGED <<buffer, buffer_pos>>
               ELSE /\ buffer_pos' = 0
                    /\ buffer' = IF buffer_pos < Len(buffer)
                                 THEN LET leftover == Len(buffer) - buffer_pos
                                      IN IF leftover > 0 /\ leftover <= READ_CHUNK_SIZE
                                         THEN Drop(buffer, buffer_pos) ELSE <<>>
                                 ELSE <<>>
    /\ UNCHANGED <<rev, device, session, c_pc, mtx, consecutive_read_failures, rt_decoded,
                   rt_gotdata, wire, sink, input, last, terminated>>

\* how many bytes the next read may ask for
ReadCap == IF rev = "part_001" THEN READ_CHUNK_001 ELSE READ_CHUNK_SIZE - Len(buffer)

\* serial->read_from_serial_port returned bytes_read > 0
rt_read_data ==
    /\ rt_pc = "read"
    /\ serial.open /\ wire # <<>> /\ ReadCap > 0
    /\ \E n \in ReadSizes(input.chunks, Len(wire), ReadCap) :
          /\ buffer' = buffer \o Take(wire, n)
          /\ wire' = Drop(wire, n)
    /\ buffer_pos' = 0
    /\ consecutive_read_failures' = 0
    /\ rt_gotdata' = TRUE
    /\ rt_pc' = "scan"
    /\ UNCHANGED <<rev, device, session, c_pc, mtx, rt_decoded, sink, input, last, terminated>>

\* The failures part_000 has counted after this failed read. The first
\* failure after a good read is a step of its own. From the second on, the
\* step is the whole run of failed reads up to the ceiling, taken without the
\* caller being scheduled in between: keep_alive and the transport are then
\* as they are now, every pass of the loop fails the same way, and the only
\* thing that tells two passes apart is the counter.
FailuresAfter(count) ==
    IF count = 0 THEN 1 ELSE MAX_CONSECUTIVE_FAILURES

\* the read returned nothing or an error; part_000 counts it (a full buffer
\* counts as a failure too) and gives up at MAX_CONSECUTIVE_FAILURES.
\* part_001 keeps no count and goes round again; the model keeps the count
\* for it, up to the ceiling of part_000, and the code never looks at it
rt_read_none ==
    /\ rt_pc = "read"
    /\ ~serial.open \/ wire = <<>> \/ ReadCap <= 0
    /\ IF rev = "part_001"
       THEN /\ rt_pc' = "loop"
            /\ consecutive_read_failures' = FailuresAfter(consecutive_read_failures)
       ELSE /\ consecutive_read_failures' = FailuresAfter(consecutive_read_failures)
            /\ rt_pc' = IF /\ ReadCap > 0
                           /\ FailuresAfter(consecutive_read_failures) >= MAX_CONSECUTIVE_FAILURES
                        THEN "fail_lock" ELSE "loop"
    /\ UNCHANGED <<rev, device, session, c_pc, mtx, buffer, buffer_pos, rt_decoded, rt_gotdata,
                   wire, sink, input, last, terminated>>

\* the failure ceiling of part_000: state under the lock, notify_one, return
rt_give_up ==
    /\ rt_pc = "fail_lock"
    /\ mtx = "free"
    /\ state' = "SYNC_TIMEOUT_ERROR"
    /\ rt_pc' = "done"
    /\ UNCHANGED <<rev, device, serial, is_streaming, keep_alive, initialized, c_pc, mtx,
                   buffer, buffer_pos, consecutive_read_failures, rt_decoded, rt_gotdata,
                   wire, sink, input, last, terminated>>

\* rt_scan_reject with a slip: a rejected position skips a whole packet length
rt_scan_reject_skips_packet ==
    /\ rt_pc = "scan"
    /\ Len(buffer) >= buffer_pos + PACKET_TOTAL_SIZE
    /\ ~Accepts(rev, buffer, buffer_pos)
    /\ buffer_pos' = buffer_pos + PACKET_TOTAL_SIZE
    /\ UNCHANGED <<rev, device, session, c_pc, mtx, rt_pc, buffer, consecutive_read_failures,
                   rt_decoded, rt_gotdata, wire, sink, input, last, terminated>>

\* rt_scan_reject with a slip: a row is pushed for the rejected window
rt_scan_reject_pushes ==
    /\ rt_pc = "scan"
    /\ Len(buffer) >= buffer_pos + PACKET_TOTAL_SIZE
    /\ ~Accepts(rev, buffer, buffer_pos)
    /\ buffer_pos' = buffer_pos + 1
    /\ samples' = Append(samples, DecodeSample(buffer, buffer_pos))
    /\ accepted' = Append(accepted, SubSeq(buffer, buffer_pos + 1, buffer_pos + PACKET_TOTAL_SIZE))
    /\ UNCHANGED <<rev, device, session, c_pc, mtx, rt_pc, buffer, consecutive_read_failures,
                   rt_decoded, rt_gotdata, wire, input, last, terminated>>

\* rt_scan_reject with a slip: a rejected position skips two bytes
rt_scan_reject_skips_two ==
    /\ rt_pc = "scan"
    /\ Len(buffer) >= buffer_pos + PACKET_TOTAL_SIZE
    /\ ~Accepts(rev, buffer, buffer_pos)
    /\ buffer_pos' = buffer_pos + 2
    /\ UNCHANGED <<rev, device, session, c_pc, mtx, rt_pc, buffer, consecutive_read_failures,
                   rt_decoded, rt_gotdata, wire, sink, input, last, terminated>>

\* one pass of the inner while: a candidate position that is not a packet
rt_scan_reject ==
    /\ rt_pc = "scan"
    /\ Len(buffer) >= buffer_pos + PACKET_TOTAL_SIZE
    /\ ~Accepts(rev, buffer, buffer_pos)
    /\ buffer_pos' = buffer_pos + 1
    /\ UNCHANGED <<rev, device, session, c_pc, mtx, rt_pc, buffer, consecutive_read_failures,
                   rt_decoded, rt_gotdata, wire, sink, input, last, terminated>>

\* one pass of the inner while: a packet; decode, push_package, test state
rt_scan_accept ==
    /\ rt_pc = "scan"
    /\ Len(buffer) >= buffer_pos + PACKET_TOTAL_SIZE
    /\ Accepts(rev, buffer, buffer_pos)
    /\ samples' = Append(samples, DecodeSample(buffer, buffer_pos))
    /\ accepted' = Append(accepted, SubSeq(buffer, buffer_pos + 1, buffer_pos + PACKET_TOTAL_SIZE))
    /\ rt_decoded' = TRUE
    /\ IF state # "STATUS_OK"
       THEN rt_pc' = "lock" /\ UNCHANGED buffer_pos
       ELSE rt_pc' = "scan" /\ buffer_pos' = buffer_pos + PACKET_TOTAL_SIZE
    /\ UNCHANGED <<rev, device, session, c_pc, mtx, buffer, consecutive_read_failures, rt_gotdata,
                   wire, input, last, terminated>>

\* first package: { lock_guard lk (m); state = STATUS_OK; }
rt_set_state ==
    /\ rt_pc = "lock"
    /\ mtx = "free"
    /\ state' = "STATUS_OK"
    /\ rt_pc' = "notify"
    /\ UNCHANGED <<rev, device, serial, is_streaming, keep_alive, initialized, c_pc, mtx,
                   buffer, buffer_pos, consecutive_read_failures, rt_decoded, rt_gotdata,
                   wire, sink, input, last, terminated>>

\* cv.notify_one (); buffer_pos += PACKET_TOTAL_SIZE
rt_notify ==
    /\ rt_pc = "notify"
    /\ rt_pc' = "scan"
    /\ buffer_pos' = buffer_pos + PACKET_TOTAL_SIZE
    /\ UNCHANGED <<rev, device, session, c_pc, mtx, buffer, consecutive_read_failures, rt_decoded,
                   rt_gotdata, wire, sink, input, last, terminated>>

\* rt_scan_end with a slip: part_001 erases the whole buffer, the bytes not
\* yet looked at included
rt_scan_end_drops_leftover ==
    /\ rt_pc = "scan"
    /\ Len(buffer) < buffer_pos + PACKET_TOTAL_SIZE
    /\ rt_pc' = "loop"
    /\ IF rev = "part_001"
       THEN buffer' = <<>> /\ buffer_pos' = 0
       ELSE UNCHANGED <<buffer, buffer_pos>>
    /\ UNCHANGED <<rev, device, session, c_pc, mtx, consecutive_read_failures, rt_decoded,
                   rt_gotdata, wire, sink, input, last, terminated>>

\* rt_scan_end with a slip: part_001 leaves the consumed bytes in the buffer
rt_scan_end_keeps_consumed ==
    /\ rt_pc = "scan"
    /\ Len(buffer) < buffer_pos + PACKET_TOTAL_SIZE
    /\ rt_pc' = "loop"
    /\ UNCHANGED <<buffer, buffer_pos>>
    /\ UNCHANGED <<rev, device, session, c_pc, mtx, consecutive_read_failures, rt_decoded,
                   rt_gotdata, wire, sink, input, last, terminated>>

\* the inner while is over; part_001 erases the consumed bytes here
rt_scan_end ==
    /\ rt_pc = "scan"
    /\ Len(buffer) < buffer_pos + PACKET_TOTAL_SIZE
    /\ rt_pc' = "loop"
    /\ IF rev = "part_001"
       THEN /\ buffer' = IF buffer_pos > 0 THEN Drop(buffer, buffer_pos) ELSE buffer
            /\ buffer_pos' = 0
       ELSE UNCHANGED <<buffer, buffer_pos>>
    /\ UNCHANGED <<rev, device, session, c_pc, mtx, consecutive_read_failures, rt_decoded,
                   rt_gotdata, wire, sink, input, last, terminated>>

read_thread ==
    \/ rt_fault
    \/ rt_entry \/ rt_loop \/ rt_read_data \/ rt_read_none \/ rt_give_up
    \/ rt_scan_reject \/ rt_scan_accept \/ rt_set_state \/ rt_notify \/ rt_scan_end

(***************************************************************************)
(* The caller: prepare_session, start_stream, stop_stream, release_session *)
(***************************************************************************)
\* chunks the verification read of prepare_session may return
VerifyPool == {<<>>, Zeros(PACKET_TOTAL_SIZE), WireOf(<<PlainA>>)}

\* the loop over verification_buffer: i < bytes_read - 1
stream_verified(chunk) ==
    \E i \in 0..(Len(chunk) - 2) : At(chunk, i) = 171 /\ At(chunk, i + 1) = 205

\* the transport calls of part_001 prepare_session up to the one that fails:
\* open, 9600, the handshake for register 1, close, open again, 115200, the
\* read whose bytes are searched for AB CD
Steps001(fail) ==
    CASE fail = "open" -> <<"open">>
      [] fail = "default_baud" -> <<"open", "default_baud">>
      [] fail = "send" -> <<"open", "default_baud", "send_reg1">>
      [] fail = "reopen" -> <<"open", "default_baud", "send_reg1", "close", "open">>
      [] fail = "target_baud" ->
             <<"open", "default_baud", "send_reg1", "close", "open", "target_baud", "close">>
      [] OTHER ->
             <<"open", "default_baud", "send_reg1", "close", "open", "target_baud",
               "verify_read">>

\* the transport calls of part_000 prepare_session: open, 9600, the port
\* settings, the handshake for register 1 and inside send_timestamp_handshake
\* the read of the response at 9600, 115200, and after a switch that worked
\* the read that is thrown away
Steps000(fail, switched) ==
    CASE fail = "open" -> <<"open">>
      [] fail = "default_baud" -> <<"open", "default_baud">>
      [] fail = "settings" -> <<"open", "default_baud", "settings">>
      [] OTHER ->
             <<"open", "default_baud", "settings", "send_reg1", "response_read",
               "target_baud">> \o (IF switched THEN <<"flush_read">> ELSE <<>>)

PrepareFailures001 == {"none", "open", "default_baud", "send", "reopen", "target_baud"}

\* part_001 prepare_session; fail names the transport call that fails
prepare_session001(fail, chunk) ==
    CASE fail = "open" ->
              /\ serial' = OSSerial(FALSE, 0)
              /\ last' = [Returned("prepare_session", "UNABLE_TO_OPEN_PORT_ERROR")
                            EXCEPT !.steps = Steps001(fail)]
              /\ UNCHANGED initialized
         [] fail = "default_baud" ->
              /\ serial' = OSSerial(TRUE, 0)
              /\ last' = [Returned("prepare_session", "BOARD_WRITE_ERROR")
                            EXCEPT !.steps = Steps001(fail)]
              /\ UNCHANGED initialized
         [] fail = "send" ->
              /\ serial' = OSSerial(TRUE, DEFAULT_BAUDRATE)
              /\ last' = [Returned("prepare_session", "BOARD_WRITE_ERROR")
                            EXCEPT !.steps = Steps001(fail)]
              /\ UNCHANGED initialized
         [] fail = "reopen" ->
              /\ serial' = OSSerial(FALSE, 0)
              /\ last' = [Returned("prepare_session", "UNABLE_TO_OPEN_PORT_ERROR")
                            EXCEPT !.steps = Steps001(fail)]
              /\ UNCHANGED initialized
         [] fail = "target_baud" ->
              /\ serial' = OSSerial(FALSE, 0)
              /\ last' = [Returned("prepare_session", "BOARD_WRITE_ERROR")
                            EXCEPT !.steps = Steps001(fail)]
              /\ UNCHANGED initialized
         [] OTHER ->
              /\ serial' = OSSerial(TRUE, TARGET_BAUDRATE)
              /\ IF Len(chunk) < PACKET_TOTAL_SIZE \/ ~stream_verified(chunk)
                 THEN /\ last' = [Returned("prepare_session", "BOARD_NOT_READY_ERROR")
                                     EXCEPT !.verified = stream_verified(chunk),
                                            !.steps = Steps001(fail)]
                      /\ UNCHANGED initialized
                 ELSE /\ last' = [Returned("prepare_session", "STATUS_OK")
                                     EXCEPT !.verified = stream_verified(chunk),
                                            !.steps = Steps001(fail)]
                      /\ initialized' = TRUE

PrepareFailures000 == {"none", "open", "default_baud", "settings"}

\* part_000 prepare_session: a failed handshake or a failed switch to the
\* target rate is logged and the session is prepared all the same; after a
\* switch that worked one chunk is read and thrown away unlooked at
prepare_session000(fail, switched, chunk) ==
    CASE fail = "open" ->
              /\ serial' = OSSerial(FALSE, 0)
              /\ last' = [Returned("prepare_session", "UNABLE_TO_OPEN_PORT_ERROR")
                            EXCEPT !.steps = Steps000(fail, switched)]
              /\ UNCHANGED initialized
         [] fail = "default_baud" ->
              /\ serial' = OSSerial(TRUE, 0)
              /\ last' = [Returned("prepare_session", "BOARD_WRITE_ERROR")
                            EXCEPT !.steps = Steps000(fail, switched)]
              /\ UNCHANGED initialized
         [] fail = "settings" ->
              /\ serial' = OSSerial(TRUE, DEFAULT_BAUDRATE)
              /\ last' = [Returned("prepare_session", "BOARD_WRITE_ERROR")
                            EXCEPT !.steps = Steps000(fail, switched)]
              /\ UNCHANGED initialized
         [] OTHER ->
              /\ serial' = OSSerial(TRUE, IF switched THEN TARGET_BAUDRATE ELSE DEFAULT_BAUDRATE)
              /\ last' = [Returned("prepare_session", "STATUS_OK")
                             EXCEPT !.verified = switched /\ stream_verified(chunk),
                                    !.steps = Steps000(fail, switched)]
              /\ initialized' = TRUE

prepare_session ==
    /\ c_pc = "idle"
    /\ IF rev = "part_001"
       THEN \E fail \in PrepareFailures001, chunk \in VerifyPool :
               prepare_session001(fail, chunk)
       ELSE \E fail \in PrepareFailures000, switched \in BOOLEAN, chunk \in VerifyPool :
               prepare_session000(fail, switched, chunk)
    /\ UNCHANGED <<rev, device, is_streaming, keep_alive, state, c_pc, mtx, thread, wire, sink,
                   input, terminated>>

\* the predicate of cv.wait_for in start_stream
WaitPredicate ==
    IF rev = "part_001" THEN state = "STATUS_OK" ELSE state # "SYNC_TIMEOUT_ERROR"

\* what start_stream returns when prepare_for_acquisition fails
AcquisitionError == IF rev = "part_001" THEN "GENERAL_ERROR" ELSE "INVALID_BUFFER_SIZE_ERROR"

\* streaming_thread = std::thread (...)
SpawnReadThread ==
    /\ IF joinable
       THEN terminated' = TRUE /\ rt_pc' = "none" /\ c_pc' = "dead"
       ELSE terminated' = FALSE /\ rt_pc' = "entry" /\ c_pc' = "start_wait"
    /\ buffer' = <<>> /\ buffer_pos' = 0 /\ consecutive_read_failures' = 0
    /\ rt_decoded' = FALSE /\ rt_gotdata' = FALSE

\* start_stream with a slip: the is_streaming guard is missing
start_stream_no_streaming_guard ==
    /\ c_pc = "idle"
    /\ IF ~initialized
       THEN /\ last' = Returned("start_stream", "BOARD_NOT_CREATED_ERROR")
            /\ UNCHANGED <<keep_alive, c_pc, thread, terminated>>
       ELSE \E acquired \in BOOLEAN :
               IF ~acquired
               THEN /\ last' = Returned("start_stream", AcquisitionError)
                    /\ UNCHANGED <<keep_alive, c_pc, thread, terminated>>
               ELSE /\ keep_alive' = TRUE
                    /\ SpawnReadThread
                    /\ UNCHANGED last
    /\ UNCHANGED <<rev, device, serial, is_streaming, initialized, state, mtx, wire, sink,
                   input>>

\* start_stream up to the wait: the two guards, prepare_for_acquisition,
\* keep_alive = true, the thread
start_stream ==
    /\ c_pc = "idle"
    /\ IF ~initialized
       THEN /\ last' = Returned("start_stream", "BOARD_NOT_CREATED_ERROR")
            /\ UNCHANGED <<keep_alive, c_pc, thread, terminated>>
       ELSE IF is_streaming
       THEN /\ last' = Returned("start_stream", "STREAM_ALREADY_RUN_ERROR")
            /\ UNCHANGED <<keep_alive, c_pc, thread, terminated>>
       ELSE \E acquired \in BOOLEAN :
               IF ~acquired
               THEN /\ last' = Returned("start_stream", AcquisitionError)
                    /\ UNCHANGED <<keep_alive, c_pc, thread, terminated>>
               ELSE /\ keep_alive' = TRUE
                    /\ SpawnReadThread
                    /\ UNCHANGED last
    /\ UNCHANGED <<rev, device, serial, is_streaming, initialized, state, mtx, wire, sink,
                   input>>

StartReturned(code) ==
    [Returned("start_stream", code) EXCEPT
        !.spawned = TRUE, !.decoded = rt_decoded,
        !.nodata = (~rt_gotdata /\ wire = <<>>)]

\* cv.wait_for returned true: the predicate holds under the lock
start_stream_woken ==
    /\ c_pc = "start_wait"
    /\ mtx = "free"
    /\ WaitPredicate
    /\ is_streaming' = TRUE
    /\ last' = StartReturned(state)
    /\ c_pc' = "idle"
    /\ UNCHANGED <<rev, device, serial, keep_alive, initialized, state, mtx, thread, wire,
                   sink, input, terminated>>

\* cv.wait_for returned false: keep_alive = false and the join, both with
\* the unique_lock still held
start_stream_timeout ==
    /\ c_pc = "start_wait"
    /\ mtx = "free"
    /\ ~WaitPredicate
    /\ keep_alive' = FALSE
    /\ mtx' = "caller"
    /\ c_pc' = "start_join"
    /\ UNCHANGED <<rev, device, serial, is_streaming, initialized, state, thread, wire,
                   sink, input, last, terminated>>

\* streaming_thread.join () of the timeout branch returned
start_stream_joined ==
    /\ c_pc = "start_join"
    /\ rt_pc = "done"
    /\ rt_pc' = "none"
    /\ mtx' = "free"
    /\ is_streaming' = IF rev = "part_001" THEN is_streaming ELSE FALSE
    /\ last' = StartReturned("SYNC_TIMEOUT_ERROR")
    /\ c_pc' = "idle"
    /\ UNCHANGED <<rev, device, serial, keep_alive, initialized, state, buffer, buffer_pos,
                   consecutive_read_failures, rt_decoded, rt_gotdata, wire, sink, input,
                   terminated>>

\* stop_stream with a slip: the thread is told to stop and is not joined
stop_stream_no_join ==
    /\ c_pc = "idle"
    /\ IF is_streaming
       THEN /\ keep_alive' = FALSE
            /\ is_streaming' = FALSE
            /\ c_pc' = "idle" /\ last' = Returned("stop_stream", "STATUS_OK")
       ELSE /\ last' = Returned("stop_stream", "STREAM_THREAD_IS_NOT_RUNNING")
            /\ UNCHANGED <<keep_alive, is_streaming, c_pc>>
    /\ UNCHANGED <<rev, device, serial, initialized, state, mtx, thread, wire, sink, input,
                   terminated>>

\* stop_stream with a slip: is_streaming is left set
stop_stream_keeps_flag ==
    /\ c_pc = "idle"
    /\ IF is_streaming
       THEN /\ keep_alive' = FALSE
            /\ UNCHANGED is_streaming
            /\ IF joinable
               THEN c_pc' = "stop_join" /\ UNCHANGED last
               ELSE c_pc' = "idle" /\ last' = Returned("stop_stream", "STATUS_OK")
       ELSE /\ last' = Returned("stop_stream", "STREAM_THREAD_IS_NOT_RUNNING")
            /\ UNCHANGED <<keep_alive, is_streaming, c_pc>>
    /\ UNCHANGED <<rev, device, serial, initialized, state, mtx, thread, wire, sink, input,
                   terminated>>

\* stop_stream up to the join
stop_stream ==
    /\ c_pc = "idle"
    /\ IF is_streaming
       THEN /\ keep_alive' = FALSE
            /\ is_streaming' = FALSE
            /\ IF joinable
               THEN c_pc' = "stop_join" /\ UNCHANGED last
               ELSE c_pc' = "idle" /\ last' = Returned("stop_stream", "STATUS_OK")
       ELSE /\ last' = Returned("stop_stream", "STREAM_THREAD_IS_NOT_RUNNING")
            /\ UNCHANGED <<keep_alive, is_streaming, c_pc>>
    /\ UNCHANGED <<rev, device, serial, initialized, state, mtx, thread, wire, sink, input,
                   terminated>>

\* streaming_thread.join () of stop_stream returned
stop_stream_joined ==
    /\ c_pc = "stop_join"
    /\ rt_pc = "done"
    /\ rt_pc' = "none"
    /\ last' = Returned("stop_stream", "STATUS_OK")
    /\ c_pc' = "idle"
    /\ UNCHANGED <<rev, device, session, mtx, buffer, buffer_pos, consecutive_read_failures,
                   rt_decoded, rt_gotdata, wire, sink, input, terminated>>

\* ReleaseTail with a slip: initialized is left set
ReleaseTail_keeps_initialized(stopped) ==
    /\ UNCHANGED initialized
    /\ serial' = NULL
    /\ last' = [Returned("release_session", "STATUS_OK") EXCEPT
                  !.was_init = TRUE,
                  !.effects = {"free_packages"}
                              \cup (IF serial.alloc THEN {"delete_serial"} ELSE {})
                              \cup (IF stopped THEN {"stop_stream"} ELSE {})]
    /\ c_pc' = "idle"

\* the tail of release_session: free_packages, initialized = false, delete serial
ReleaseTail(stopped) ==
    /\ initialized' = FALSE
    /\ serial' = NULL
    /\ last' = [Returned("release_session", "STATUS_OK") EXCEPT
                  !.was_init = TRUE,
                  !.effects = {"free_packages"}
                              \cup (IF serial.alloc THEN {"delete_serial"} ELSE {})
                              \cup (IF stopped THEN {"stop_stream"} ELSE {})]
    /\ c_pc' = "idle"

\* release_session with a slip: a running stream is not stopped
release_session_no_stop ==
    /\ c_pc = "idle"
    /\ IF ~initialized
       THEN /\ last' = Returned("release_session", "STATUS_OK")
            /\ UNCHANGED <<serial, is_streaming, keep_alive, initialized, c_pc>>
       ELSE ReleaseTail(FALSE) /\ UNCHANGED <<is_streaming, keep_alive>>
    /\ UNCHANGED <<rev, device, state, mtx, thread, wire, sink, input, terminated>>

\* release_session up to the join of the stop_stream it calls
release_session ==
    /\ c_pc = "idle"
    /\ IF ~initialized
       THEN /\ last' = Returned("release_session", "STATUS_OK")
            /\ UNCHANGED <<serial, is_streaming, keep_alive, initialized, c_pc>>
       ELSE IF is_streaming
       THEN /\ keep_alive' = FALSE
            /\ is_streaming' = FALSE
            /\ IF joinable
               THEN c_pc' = "release_join" /\ UNCHANGED <<serial, initialized, last>>
               ELSE ReleaseTail(TRUE)
       ELSE ReleaseTail(FALSE) /\ UNCHANGED <<is_streaming, keep_alive>>
    /\ UNCHANGED <<rev, device, state, mtx, thread, wire, sink, input, terminated>>

\* the join inside release_session returned; the tail runs
release_session_joined ==
    /\ c_pc = "release_join"
    /\ rt_pc = "done"
    /\ rt_pc' = "none"
    /\ ReleaseTail(TRUE)
    /\ UNCHANGED <<rev, device, is_streaming, keep_alive, state, mtx, buffer, buffer_pos,
                   consecutive_read_failures, rt_decoded, rt_gotdata, wire, sink, input,
                   terminated>>

(***************************************************************************)
(* The device: handshake detection (waitForTimestamp), setup and loop      *)
(***************************************************************************)
\* the 12 bytes send_timestamp_handshake puts on the line
\* HandshakePacket with a slip: the timestamp low byte first
HandshakePacket_low_byte_first(unix_timestamp, reg_addr, reg_val) ==
    LET head == << 170, 187, MSG_TYPE_TIMESTAMP,
                   unix_timestamp.lo % 256, (unix_timestamp.lo \div 256) % 256,
                   unix_timestamp.hi % 256, (unix_timestamp.hi \div 256) % 256,
                   reg_addr, reg_val >>
    IN head \o << Sum8(head, 2, 9), 204, 221 >>

HandshakePacket(unix_timestamp, reg_addr, reg_val) ==
    LET head == << 170, 187, MSG_TYPE_TIMESTAMP,
                   (unix_timestamp.hi \div 256) % 256, unix_timestamp.hi % 256,
                   (unix_timestamp.lo \div 256) % 256, unix_timestamp.lo % 256,
                   reg_addr, reg_val >>
    IN head \o << Sum8(head, 2, 9), 204, 221 >>

get_baud_rate_from_config(config_val) ==
    CASE config_val = 0 -> 9600
      [] config_val = 1 -> 19200
      [] config_val = 2 -> 38400
      [] config_val = 3 -> 57600
      [] config_val = 4 -> 115200
      [] config_val = 5 -> 230400
      [] config_val = 6 -> 460800
      [] config_val = 7 -> 921600
      [] OTHER -> 0

\* uint32_t addition of a small number
U32Add(u, n) ==
    LET lo == u.lo + n
    IN U32((u.hi + (lo \div 65536)) % 65536, lo % 65536)

\* globals of the sketch at power-on, Serial.begin (9600) done
PowerOn ==
    /\ dev_pc = "setup"
    /\ ring_buffer = Zeros(RING_BUFFER_SIZE) /\ ring_head = 0 /\ ring_counter = 0
    /\ unix_timestamp_reference = U32(0, 0) /\ timestamp_initialized = FALSE
    /\ elapsed = 0
    /\ baud_rate = DEFAULT_BAUDRATE
    /\ dataReady = FALSE
    /\ rx = <<>> /\ line = <<>> /\ handshakes = <<>>

\* RingTake with a slip: the while does not test ring_counter
RingTake_uncapped == Len(rx)

\* the first while of waitForTimestamp: how many bytes go into the ring
RingTake == IF Len(rx) < RING_BUFFER_SIZE - ring_counter
            THEN Len(rx) ELSE RING_BUFFER_SIZE - ring_counter

\* the ring after that while
RingFilled ==
    [i \in 1..RING_BUFFER_SIZE |->
        LET k == ((i - 1) - ring_head + RING_BUFFER_SIZE) % RING_BUFFER_SIZE
        IN IF k < RingTake THEN rx[k + 1] ELSE ring_buffer[i]]

RingAt(ring, idx) == ring[(idx % RING_BUFFER_SIZE) + 1]

\* the test of the scan loop at ring position ring_index
HandshakeAt(ring, ring_index) ==
    /\ RingAt(ring, ring_index) = 170
    /\ RingAt(ring, ring_index + 1) = 187
    /\ RingAt(ring, ring_index + 2) = MSG_TYPE_TIMESTAMP

\* the values of i at which the scan loop finds a handshake
ScanHits(ring) ==
    {i \in 0..(handshake_packet_size + 3 - 1) : HandshakeAt(ring, (ring_tail + i) % RING_BUFFER_SIZE)}

Least(S) == CHOOSE x \in S : \A y \in S : x <= y

\* waitForTimestamp returns true
WaitFound ==
    /\ ring_counter + RingTake >= handshake_packet_size
    /\ ScanHits(RingFilled) # {}

received_timestamp(ring, ring_index) ==
    U32(RingAt(ring, ring_index + 3) * 256 + RingAt(ring, ring_index + 4),
        RingAt(ring, ring_index + 5) * 256 + RingAt(ring, ring_index + 6))

\* waitForTimestamp, the first while: the bytes go into the ring
RingStep ==
    /\ ring_buffer' = RingFilled
    /\ ring_head' = (ring_head + RingTake) % RING_BUFFER_SIZE
    /\ ring_counter' = ring_counter + RingTake
    /\ rx' = Drop(rx, RingTake)

\* ApplyHandshake without the test of the register address
ApplyHandshake_any_register ==
    LET ring_index == (ring_tail + Least(ScanHits(RingFilled))) % RING_BUFFER_SIZE
        reg_val == RingAt(RingFilled, ring_index + 8)
    IN /\ baud_rate' = IF get_baud_rate_from_config(reg_val) > 0
                       THEN get_baud_rate_from_config(reg_val) ELSE baud_rate
       /\ unix_timestamp_reference' = received_timestamp(RingFilled, ring_index)
       /\ elapsed' = 0
       /\ timestamp_initialized' = TRUE

\* waitForTimestamp, the body of the if in the scan loop: the first hit sets
\* the baud rate (register 1, a known index) and the timestamp reference
ApplyHandshake ==
    LET ring_index == (ring_tail + Least(ScanHits(RingFilled))) % RING_BUFFER_SIZE
        reg_addr == RingAt(RingFilled, ring_index + 7)
        reg_val == RingAt(RingFilled, ring_index + 8)
    IN /\ baud_rate' = IF reg_addr = 1 /\ get_baud_rate_from_config(reg_val) > 0
                       THEN get_baud_rate_from_config(reg_val) ELSE baud_rate
       /\ unix_timestamp_reference' = received_timestamp(RingFilled, ring_index)
       /\ elapsed' = 0
       /\ timestamp_initialized' = TRUE

\* setup (): one waitForTimestamp; without a handshake the fallback reference
\* 1500000000 (0x59682F00)
setup ==
    /\ dev_pc = "setup"
    /\ RingStep
    /\ IF WaitFound
       THEN ApplyHandshake
       ELSE /\ unix_timestamp_reference' = U32(22888, 12032)
            /\ elapsed' = 0
            /\ timestamp_initialized' = TRUE
            /\ UNCHANGED baud_rate
    /\ dev_pc' = "loop"
    /\ UNCHANGED <<rev, session, c_pc, mtx, thread, wire, sink, input, last, terminated,
                   dataReady, line, handshakes>>

\* what read_ADS1299_data returns: the two payloads in turn
DeviceRawPool == <<RawPlain, RawTrickyB>>
ADCBytes == DeviceRawPool[((Len(wire) \div PACKET_TOTAL_SIZE) % 2) + 1]

\* SendPacket with a slip: the timestamp is the reference, the time passed
\* since is left out
SendPacket_reference_only ==
    wire' = wire \o DevicePacket(unix_timestamp_reference, ADCBytes)

\* loop () from read_ADS1299_data to Serial.write: one packet is built from
\* the reference, the time passed and the ADC bytes and written
SendPacket ==
    wire' = wire \o DevicePacket(U32Add(unix_timestamp_reference, elapsed), ADCBytes)

\* loop () behind the handshake check: if (dataReady) { dataReady = false;
TakeFlag ==
    IF dataReady
    THEN dataReady' = FALSE /\ dev_pc' = "send"
    ELSE UNCHANGED <<dataReady, dev_pc>>

\* loop () up to dataReady = false: with 12 bytes or more pending,
\* waitForTimestamp; a handshake found ends the pass, otherwise the pass goes
\* on to the test of the flag
loop ==
    /\ dev_pc = "loop"
    /\ IF Len(rx) >= 12
       THEN /\ RingStep
            /\ IF WaitFound
               THEN ApplyHandshake /\ UNCHANGED <<dataReady, dev_pc>>
               ELSE /\ TakeFlag
                    /\ UNCHANGED <<baud_rate, unix_timestamp_reference, elapsed,
                                   timestamp_initialized>>
       ELSE /\ TakeFlag
            /\ UNCHANGED <<ring_buffer, ring_head, ring_counter, rx, baud_rate,
                           unix_timestamp_reference, elapsed, timestamp_initialized>>
    /\ UNCHANGED <<rev, session, c_pc, mtx, thread, wire, sink, input, last, terminated,
                   line, handshakes>>

\* loop_send with a slip: the flag is cleared once more behind Serial.write
loop_send_clears_late ==
    /\ dev_pc = "send"
    /\ SendPacket
    /\ dataReady' = FALSE
    /\ dev_pc' = "loop"
    /\ UNCHANGED <<rev, session, c_pc, mtx, thread, sink, input, last, terminated,
                   ring_buffer, ring_head, ring_counter, unix_timestamp_reference,
                   timestamp_initialized, elapsed, baud_rate, rx, line, handshakes>>

\* the rest of the pass of loop () that found the flag set: the ADC bytes
\* are read, the packet is built and written
loop_send ==
    /\ dev_pc = "send"
    /\ SendPacket
    /\ dev_pc' = "loop"
    /\ UNCHANGED <<rev, session, c_pc, mtx, thread, sink, input, last, terminated,
                   ring_buffer, ring_head, ring_counter, unix_timestamp_reference,
                   timestamp_initialized, elapsed, baud_rate, dataReady, rx, line, handshakes>>

\* the DRDY interrupt, attached at the end of setup (), at any point of
\* loop (); the device is watched for MaxSent packets
onDRDYFalling ==
    /\ dev_pc \in {"loop", "send"}
    /\ ~dataReady
    /\ Len(wire) < MaxSent * PACKET_TOTAL_SIZE
    /\ dataReady' = TRUE
    /\ UNCHANGED <<rev, session, c_pc, mtx, thread, wire, sink, input, last, terminated,
                   dev_pc, ring_buffer, ring_head, ring_counter, unix_timestamp_reference,
                   timestamp_initialized, elapsed, baud_rate, rx, line, handshakes>>

\* a second passes on the clock of the device
second_passes ==
    /\ elapsed < MaxElapsed
    /\ elapsed' = elapsed + 1
    /\ UNCHANGED <<rev, session, c_pc, mtx, thread, wire, sink, input, last, terminated,
                   dev_pc, ring_buffer, ring_head, ring_counter, unix_timestamp_reference,
                   timestamp_initialized, baud_rate, dataReady, rx, line, handshakes>>

\* the handshakes a host may send: two sound ones for the rates 115200 and
\* 230400, one with a rate index that is not known, one for another
\* register whose timestamp 0xAABB02AA holds the bytes of a handshake start,
\* and the bytes on the line of a handshake, sound or with its checksum byte
\* altered
HandshakePool ==
    { [ts |-> U32(26000, 1), reg_addr |-> 1, reg_val |-> 4, sound |-> TRUE],
      [ts |-> U32(26000, 2), reg_addr |-> 1, reg_val |-> 5, sound |-> TRUE],
      [ts |-> U32(65535, 65535), reg_addr |-> 1, reg_val |-> 9, sound |-> TRUE],
      [ts |-> U32(43707, 682), reg_addr |-> 2, reg_val |-> 6, sound |-> TRUE],
      [ts |-> U32(26000, 4), reg_addr |-> 1, reg_val |-> 6, sound |-> FALSE] }

HandshakeBytes(h) ==
    LET packet == HandshakePacket(h.ts, h.reg_addr, h.reg_val)
    IN IF h.sound THEN packet ELSE [packet EXCEPT ![10] = (@ + 1) % 256]

\* the 12 bytes of a handshake arrive at the device
handshake_arrives ==
    /\ Len(handshakes) < MaxHandshakes
    /\ \E h \in HandshakePool :
          /\ rx' = rx \o HandshakeBytes(h)
          /\ handshakes' = Append(handshakes, h)
    /\ UNCHANGED <<rev, session, c_pc, mtx, thread, wire, sink, input, last, terminated,
                   dev_pc, ring_buffer, ring_head, ring_counter, unix_timestamp_reference,
                   timestamp_initialized, elapsed, baud_rate, dataReady, line>>

\* the host writes the 12 bytes of a handshake to the line; the handshakes
\* of a host are seconds apart, the one before has arrived
handshake_sent ==
    /\ Len(handshakes) < MaxHandshakes
    /\ line = <<>>
    /\ \E h \in HandshakePool :
          /\ line' = line \o HandshakeBytes(h)
          /\ handshakes' = Append(handshakes, h)
    /\ UNCHANGED <<rev, session, c_pc, mtx, thread, wire, sink, input, last, terminated,
                   dev_pc, ring_buffer, ring_head, ring_counter, unix_timestamp_reference,
                   timestamp_initialized, elapsed, baud_rate, dataReady, rx>>

\* bytes that are no handshake reach the line before the first handshake:
\* what the host port puts out when it is opened
LineNoise == Zeros(NoiseLen)

noise_arrives ==
    /\ handshakes = <<>> /\ line = <<>> /\ rx = <<>> /\ ring_counter = 0
    /\ line' = LineNoise
    /\ UNCHANGED <<rev, session, c_pc, mtx, thread, wire, sink, input, last, terminated,
                   dev_pc, ring_buffer, ring_head, ring_counter, unix_timestamp_reference,
                   timestamp_initialized, elapsed, baud_rate, dataReady, rx, handshakes>>

\* the UART of the device receives bytes of the line, one after the other:
\* between two looks of the sketch at Serial.available () the first bytes of
\* the line or all of them have come in
ArrivalSizes == {n \in {FirstBytes, Len(line)} : n >= 1 /\ n <= Len(line)}

uart_receives ==
    /\ \E n \in ArrivalSizes :
          /\ rx' = rx \o Take(line, n)
          /\ line' = Drop(line, n)
    /\ UNCHANGED <<rev, session, c_pc, mtx, thread, wire, sink, input, last, terminated,
                   dev_pc, ring_buffer, ring_head, ring_counter, unix_timestamp_reference,
                   timestamp_initialized, elapsed, baud_rate, dataReady, handshakes>>

(***************************************************************************)
(* Device specification: the device from power-on, a host that sends up to *)
(* MaxHandshakes handshakes, nobody reading what the device writes         *)
(***************************************************************************)
InitDevice ==
    /\ rev = "part_001"
    /\ input = [garbage |-> <<>>, pkts |-> <<>>, chunks |-> {}, descr |-> GoodDescr]
    /\ wire = <<>>
    /\ Constructed
    /\ PowerOn

NextDevice ==
    \/ setup \/ loop \/ loop_send \/ onDRDYFalling \/ second_passes \/ handshake_arrives

SpecDevice == InitDevice /\ [][NextDevice]_vars

(***************************************************************************)
(* Arrival specification: the device from power-on and the line to it byte *)
(* by byte: noise in front of the first handshake, handshakes that have    *)
(* arrived in part when the sketch looks; the ADC raises no interrupt      *)
(***************************************************************************)
InitArrival == InitDevice

NextArrival ==
    \/ setup \/ loop \/ handshake_sent \/ noise_arrives \/ uart_receives

SpecArrival == InitArrival /\ [][NextArrival]_vars

(***************************************************************************)
(* Baud-table specification: one configuration byte; the host looks it up  *)
(* in its table and the device receives it in a handshake for register 1   *)
(***************************************************************************)
\* get_baud_rate_from_config of part_001 with a slip: 5 and 6 change places
get_baud_rate_from_config_001_swapped(config_val) ==
    CASE config_val = 0 -> 9600
      [] config_val = 1 -> 19200
      [] config_val = 2 -> 38400
      [] config_val = 3 -> 57600
      [] config_val = 4 -> 115200
      [] config_val = 5 -> 460800
      [] config_val = 6 -> 230400
      [] config_val = 7 -> 921600
      [] OTHER -> -1

\* Cerelog_X8::get_baud_rate_from_config of part_001
get_baud_rate_from_config_001(config_val) ==
    CASE config_val = 0 -> 9600
      [] config_val = 1 -> 19200
      [] config_val = 2 -> 38400
      [] config_val = 3 -> 57600
      [] config_val = 4 -> 115200
      [] config_val = 5 -> 230400
      [] config_val = 6 -> 460800
      [] config_val = 7 -> 921600
      [] OTHER -> -1

\* Cerelog_X8::get_baud_rate_from_config of part_000
get_baud_rate_from_config_000(config_val) ==
    CASE config_val = 0 -> 9600
      [] config_val = 1 -> 19200
      [] config_val = 2 -> 38400
      [] config_val = 3 -> 57600
      [] config_val = 4 -> 115200
      [] config_val = 5 -> 230400
      [] config_val = 6 -> 460800
      [] config_val = 7 -> 921600
      [] OTHER -> -1

Cerelog_X8_get_baud_rate_from_config(r, config_val) ==
    IF r = "part_001" THEN get_baud_rate_from_config_001(config_val)
                      ELSE get_baud_rate_from_config_000(config_val)

\* the values of a uint8_t
Bytes == 0..255

\* the host calls its get_baud_rate_from_config on the byte
host_get_baud_rate ==
    /\ c_pc = "idle" /\ last.op = "none"
    /\ last' = [NoCall EXCEPT !.op = "get_baud_rate_from_config",
                              !.code = Cerelog_X8_get_baud_rate_from_config(rev, input.config_val)]
    /\ UNCHANGED <<rev, device, session, c_pc, mtx, thread, wire, sink, input, terminated>>

InitBaud ==
    /\ rev \in Revisions
    /\ \E v \in Bytes :
          /\ input = [garbage |-> <<>>, pkts |-> <<>>, chunks |-> {}, descr |-> GoodDescr,
                      config_val |-> v]
          /\ LET h == [ts |-> U32(26000, 1), reg_addr |-> 1, reg_val |-> v, sound |-> TRUE]
             IN /\ dev_pc = "setup"
                /\ ring_buffer = Zeros(RING_BUFFER_SIZE) /\ ring_head = 0 /\ ring_counter = 0
                /\ unix_timestamp_reference = U32(0, 0) /\ timestamp_initialized = FALSE
                /\ elapsed = 0
                /\ baud_rate = DEFAULT_BAUDRATE
                /\ dataReady = FALSE
                /\ rx = HandshakeBytes(h) /\ line = <<>> /\ handshakes = <<h>>
    /\ wire = <<>>
    /\ Constructed

NextBaud == host_get_baud_rate \/ setup

SpecBaud == InitBaud /\ [][NextBaud]_vars

(***************************************************************************)
(* Session specification: a constructed board, a single caller, a device   *)
(* that sends up to MaxPackets packets and then falls silent               *)
(***************************************************************************)
RECURSIVE DevicePackets(_)
DevicePackets(k) ==
    IF k = 0 THEN <<>>
    ELSE Append(DevicePackets(k - 1), IF k % 2 = 1 THEN PlainA ELSE PlainB)

\* what is left of the packet the device was sending when the host switched
\* its baud rate: the two end-marker bytes
LeadIn(k) == IF k = 0 THEN <<>> ELSE << 220, 186 >>

Init ==
    /\ rev \in Revisions
    /\ \E k \in 0..MaxPackets :
          /\ \E d \in DescrPool :
                input = [garbage |-> LeadIn(k), pkts |-> DevicePackets(k),
                         chunks |-> SessionChunks, descr |-> d]
          /\ wire = LeadIn(k) \o WireOf(DevicePackets(k))
    /\ Constructed
    /\ PowerOn

Next ==
    \/ prepare_session
    \/ start_stream \/ start_stream_woken \/ start_stream_timeout \/ start_stream_joined
    \/ stop_stream \/ stop_stream_joined
    \/ release_session \/ release_session_joined
    \/ rt_entry \/ rt_loop \/ rt_read_data \/ rt_read_none \/ rt_give_up
    \/ rt_scan_reject \/ rt_scan_accept \/ rt_set_state \/ rt_notify \/ rt_scan_end
    \/ rt_fault

Spec == Init /\ [][Next]_vars

(***************************************************************************)
(* Decoder specification: a started stream, the caller blocked in          *)
(* start_stream, the device sending garbage and then two packets           *)
(***************************************************************************)
InitDecode ==
    /\ rev \in Revisions
    /\ \E g \in GarbagePool, p1 \in PacketPool :
          /\ input = [garbage |-> g, pkts |-> <<p1, PlainB>>, chunks |-> DecodeChunks,
                      descr |-> GoodDescr]
          /\ wire = g \o WireOf(<<p1, PlainB>>)
    /\ serial = OSSerial(TRUE, TARGET_BAUDRATE)
    /\ is_streaming = FALSE /\ keep_alive = TRUE /\ initialized = TRUE
    /\ state = "SYNC_TIMEOUT_ERROR"
    /\ c_pc = "start_wait" /\ mtx = "free"
    /\ rt_pc = "entry" /\ buffer = <<>> /\ buffer_pos = 0
    /\ consecutive_read_failures = 0
    /\ rt_decoded = FALSE /\ rt_gotdata = FALSE
    /\ samples = <<>> /\ accepted = <<>>
    /\ last = [NoCall EXCEPT !.op = "prepare_session", !.code = "STATUS_OK"]
    /\ terminated = FALSE
    /\ PowerOn

NextDecode ==
    \/ rt_entry \/ rt_loop \/ rt_read_data \/ rt_read_none \/ rt_give_up
    \/ rt_scan_reject \/ rt_scan_accept \/ rt_set_state \/ rt_notify \/ rt_scan_end

SpecDecode == InitDecode /\ [][NextDecode]_vars

(***************************************************************************)
(* Noise specification: as the decoder specification, without garbage and  *)
(* with one bit of the checksummed bytes of the first packet flipped       *)
(***************************************************************************)
RECURSIVE Pow2(_)
Pow2(n) == IF n = 0 THEN 1 ELSE 2 * Pow2(n - 1)

FlipBit(b, bit) == IF (b \div Pow2(bit)) % 2 = 1 THEN b - Pow2(bit) ELSE b + Pow2(bit)

\* packet with bit number bit of the byte at offset off flipped
Flipped(packet, off, bit) == [packet EXCEPT ![off + 1] = FlipBit(@, bit)]

InitNoise ==
    /\ rev \in Revisions
    /\ \E p1 \in PacketPool, off \in 2..33, bit \in 0..7 :
          /\ input = [garbage |-> <<>>, pkts |-> <<p1, PlainB>>,
                      chunks |-> SessionChunks, descr |-> GoodDescr,
                      flip |-> [off |-> off, bit |-> bit]]
          /\ wire = Flipped(DevicePacket(p1.ts, p1.raw), off, bit) \o WireOf(<<PlainB>>)
    /\ serial = OSSerial(TRUE, TARGET_BAUDRATE)
    /\ is_streaming = FALSE /\ keep_alive = TRUE /\ initialized = TRUE
    /\ state = "SYNC_TIMEOUT_ERROR"
    /\ c_pc = "start_wait" /\ mtx = "free"
    /\ rt_pc = "entry" /\ buffer = <<>> /\ buffer_pos = 0
    /\ consecutive_read_failures = 0
    /\ rt_decoded = FALSE /\ rt_gotdata = FALSE
    /\ samples = <<>> /\ accepted = <<>>
    /\ last = [NoCall EXCEPT !.op = "prepare_session", !.code = "STATUS_OK"]
    /\ terminated = FALSE
    /\ PowerOn

SpecNoise == InitNoise /\ [][NextDecode]_vars

(***************************************************************************)
(* Claims on the decoder                                                   *)
(***************************************************************************)
\* every byte of the stream has been read and the scan pass over it is done
DecoderIdle == wire = <<>> /\ rt_pc \in {"loop", "read", "fail_lock", "done"}

IsPrefix(s, t) == Len(s) <= Len(t) /\ s = SubSeq(t, 1, Len(s))

\* the garbage holds the start-marker pair AB CD at two adjacent positions
HasStartMarker(g) ==
    \E i \in 1..(Len(g) - 1) : g[i] = START_MARKER_B1 /\ g[i + 1] = START_MARKER_B2

ValidWindow(w) ==
    /\ Len(w) = PACKET_TOTAL_SIZE
    /\ w[1] = 171 /\ w[2] = 205
    /\ w[35] = Sum8(w, 2, 34)
    /\ w[36] = 220 /\ w[37] = 186

\* C2: every window a row was delivered for starts with AB CD, carries at
\* offset 34 the sum mod 256 of its bytes 2..33, and ends with DC BA.
C2_OnlyValidWindows ==
    /\ Len(accepted) = Len(samples)
    /\ \A i \in 1..Len(accepted) : ValidWindow(accepted[i])

(***************************************************************************)
(* Claims on the session                                                   *)
(***************************************************************************)
\* C3: a start_stream that returns STATUS_OK does so only when the read
\* thread it spawned has delivered at least one row before it returns.
C3_SuccessMeansDecoded ==
    (last.op = "start_stream" /\ last.code = "STATUS_OK") => last.decoded

\* C4: a start_stream whose read thread never got a byte from a silent
\* transport returns SYNC_TIMEOUT_ERROR; when it has returned no read thread
\* is left and the session is not streaming (so stop_stream reports
\* STREAM_THREAD_IS_NOT_RUNNING).
C4_SilentTransportTimesOut ==
    (last.op = "start_stream" /\ last.spawned /\ last.nodata) =>
        /\ last.code = "SYNC_TIMEOUT_ERROR"
        /\ c_pc = "idle" => (rt_pc = "none" /\ ~is_streaming)

\* C5: from the return of a successful stop_stream until the next call, no
\* read thread exists.
C5_StopJoinsThread ==
    (last.op = "stop_stream" /\ last.code = "STATUS_OK" /\ c_pc = "idle") => rt_pc = "none"

C5_Witness ==
    /\ last.op = "stop_stream" /\ last.code = "STATUS_OK" /\ c_pc = "idle"
    /\ Len(samples) >= 1

\* C6: stop_stream on a session that is not streaming returns
\* STREAM_THREAD_IS_NOT_RUNNING and changes nothing; on a streaming session
\* it returns STATUS_OK; after a stop_stream has returned the session is not
\* streaming, so the stop_stream right after a stop_stream reports
\* STREAM_THREAD_IS_NOT_RUNNING.
C6_StopIdempotent ==
    /\ [][(stop_stream /\ ~is_streaming) =>
            /\ last'.code = "STREAM_THREAD_IS_NOT_RUNNING"
            /\ UNCHANGED <<session, thread, c_pc, mtx>>]_vars
    /\ [][(stop_stream /\ is_streaming) =>
            (c_pc' = "stop_join" \/ last'.code = "STATUS_OK")]_vars
    /\ [][stop_stream_joined => last'.code = "STATUS_OK"]_vars
    /\ []((last.op = "stop_stream" /\ c_pc = "idle") => ~is_streaming)
    /\ []((last.op = "stop_stream" /\ last.again) =>
            last.code = "STREAM_THREAD_IS_NOT_RUNNING")

C6_Witness ==
    /\ last.op = "stop_stream" /\ last.again
    /\ last.code = "STREAM_THREAD_IS_NOT_RUNNING"
    /\ initialized /\ Len(samples) >= 1

\* C7: a release_session right after a release_session returns STATUS_OK and
\* stops nothing and frees nothing.
C7_ReleaseIdempotent ==
    (last.op = "release_session" /\ last.again) =>
        (last.code = "STATUS_OK" /\ last.effects = {} /\ ~last.was_init)

C7_Witness ==
    /\ last.op = "release_session" /\ last.again /\ last.effects = {}
    /\ Len(samples) >= 1

\* C8: when release_session has returned on an initialized session, the
\* session is not initialized and not streaming, no read thread exists, and
\* the OSSerial object is deleted and serial is NULL.
C8_ReleaseTearsDown ==
    (last.op = "release_session" /\ last.was_init /\ c_pc = "idle") =>
        /\ ~initialized /\ ~is_streaming
        /\ rt_pc = "none"
        /\ serial = NULL
        /\ "delete_serial" \in last.effects /\ "free_packages" \in last.effects

C8_Witness ==
    /\ last.op = "release_session" /\ last.was_init /\ c_pc = "idle"
    /\ "stop_stream" \in last.effects /\ Len(samples) >= 1

\* C9: start_stream on a session that is not initialized returns
\* BOARD_NOT_CREATED_ERROR, on a streaming session STREAM_ALREADY_RUN_ERROR,
\* both without touching the read thread; no read thread is ever started
\* while another one exists.
C9_StartGuards ==
    /\ [][(start_stream /\ ~initialized) =>
            /\ last'.code = "BOARD_NOT_CREATED_ERROR"
            /\ UNCHANGED <<thread, keep_alive, c_pc>>]_vars
    /\ [][(start_stream /\ initialized /\ is_streaming) =>
            /\ last'.code = "STREAM_ALREADY_RUN_ERROR"
            /\ UNCHANGED <<thread, keep_alive, c_pc>>]_vars
    /\ [][(rt_pc' = "entry" /\ rt_pc # "entry") => rt_pc = "none"]_vars
    /\ [](~terminated)

C9_Witness ==
    /\ last.op = "start_stream" /\ last.code = "STREAM_ALREADY_RUN_ERROR"
    /\ rt_pc = "scan" /\ is_streaming

\* C10: when prepare_session has returned a failure code the session is not
\* initialized.
C10_FailedPrepareNotInitialized ==
    (last.op = "prepare_session" /\ last.code # "STATUS_OK") => ~initialized

\* C11: when prepare_session has returned STATUS_OK, the chunk read after the
\* switch to the target baud rate held the pair AB CD at two adjacent
\* positions.
C11_ReadyOnlyIfVerified ==
    (last.op = "prepare_session" /\ last.code = "STATUS_OK") => last.verified

\* C12: once MAX_CONSECUTIVE_FAILURES reads in a row have failed or returned
\* nothing, the read thread makes no further pass of its loop: it is about to
\* set the state, or has returned with state SYNC_TIMEOUT_ERROR.
C12_BoundedRetry ==
    consecutive_read_failures >= MAX_CONSECUTIVE_FAILURES =>
        \/ rt_pc = "fail_lock"
        \/ rt_pc \in {"done", "none"} /\ state = "SYNC_TIMEOUT_ERROR"

\* C13: with a descriptor that lacks one of the four keys, has fewer than 8
\* EEG channel indices or has an index outside [0, num_rows), the read thread
\* never reads from the transport and delivers no row, and start_stream
\* returns an error code and leaves is_streaming false.
C13_BadDescriptorIsFatal ==
    ~DescrValid(input.descr) =>
        /\ rt_pc \in {"none", "entry", "done"}
        /\ ~rt_gotdata /\ samples = <<>>
        /\ ~is_streaming
        /\ (last.op = "start_stream" /\ last.spawned) => last.code # "STATUS_OK"

(***************************************************************************)
(* Claims on the device                                                    *)
(***************************************************************************)
\* the k-th 37 bytes the device has written, k from 0
Written(k) == SubSeq(wire, k * PACKET_TOTAL_SIZE + 1, (k + 1) * PACKET_TOTAL_SIZE)
WrittenCount == Len(wire) \div PACKET_TOTAL_SIZE

\* C14: what the device has written is a whole number of 37-byte packets,
\* each starting with AB CD, ending with DC BA and carrying at offset 34 the
\* sum mod 256 of its bytes 2..33.
C14_DevicePacketsWellFormed ==
    /\ Len(wire) % PACKET_TOTAL_SIZE = 0
    /\ \A k \in 0..(WrittenCount - 1) : ValidWindow(Written(k))

C14_Witness ==
    /\ WrittenCount >= 2 /\ handshakes # <<>>
    /\ \E k \in 0..(WrittenCount - 1) : Written(k)[4] = 255

\* C15 as stated: the byte at offset 2 of every packet written is 0x1B (27).
C15_LengthIs1B ==
    \A k \in 0..(WrittenCount - 1) : Written(k)[3] = 27

\* C15 amended: the byte at offset 2 of every packet written is 0x1F (31),
\* the 4 timestamp bytes and the 27 data bytes.
C15_LengthIs1F ==
    \A k \in 0..(WrittenCount - 1) : Written(k)[3] = 31

C15_Witness == WrittenCount = 1 /\ ~dataReady /\ elapsed = 1

(***************************************************************************)
(* Claims on the codec                                                     *)
(***************************************************************************)
\* the 24-bit code of channel c (1..8) in the 27 ADC bytes raw
CodeOf(raw, c) == raw[3 * c + 1] * 65536 + raw[3 * c + 2] * 256 + raw[3 * c + 3]

\* C16: without garbage, the i-th row delivered comes from the i-th packet
\* as the device built it and carries the timestamp and the eight signed
\* channel codes that went into that packet, channel by channel; once the
\* stream is scanned both packets have been accepted.
C16_RoundTrip ==
    input.garbage = <<>> =>
        /\ \A i \in 1..Len(samples) :
              /\ i <= Len(input.pkts)
              /\ accepted[i] = DevicePacket(input.pkts[i].ts, input.pkts[i].raw)
              /\ samples[i].ts = input.pkts[i].ts
              /\ \A c \in 1..8 :
                    samples[i].ch[c] = Signed24(CodeOf(input.pkts[i].raw, c))
        /\ DecoderIdle => Len(samples) = Len(input.pkts)

C16_Witness ==
    /\ input.garbage = <<>> /\ input.pkts[1] = Mixed
    /\ DecoderIdle /\ Len(samples) = 2

\* the 24-bit code of channel c (1..8) in an accepted 37-byte window
WindowCode(w, c) == w[7 + 3 * c + 1] * 65536 + w[7 + 3 * c + 2] * 256 + w[7 + 3 * c + 3]

\* C17: the window with the flipped bit is never accepted: no row is
\* delivered for it.
C17_FlippedBitRejected ==
    \A i \in 1..Len(accepted) :
        accepted[i] # Flipped(DevicePacket(input.pkts[1].ts, input.pkts[1].raw),
                              input.flip.off, input.flip.bit)

C17_Witness ==
    /\ input.flip.off = 33 /\ input.pkts[1] = PlainA
    /\ DecoderIdle /\ Len(samples) >= 1

\* C18: every channel value of a delivered row is the code c of its window
\* when c < 2^23 and c - 2^24 otherwise; 0x7FFFFF gives 8388607, 0x800000
\* gives -8388608 and 0xFFFFFF gives -1.
C18_SignExtension ==
    /\ \A i \in 1..Len(samples) : \A c \in 1..8 :
          samples[i].ch[c] = IF WindowCode(accepted[i], c) < 8388608
                             THEN WindowCode(accepted[i], c)
                             ELSE WindowCode(accepted[i], c) - 16777216
    /\ \A i \in 1..Len(samples) : \A c \in 1..8 :
          /\ WindowCode(accepted[i], c) = 8388607 => samples[i].ch[c] = 8388607
          /\ WindowCode(accepted[i], c) = 8388608 => samples[i].ch[c] = -8388608
          /\ WindowCode(accepted[i], c) = 16777215 => samples[i].ch[c] = -1

C18_Witness ==
    \E i \in 1..Len(samples) :
        /\ WindowCode(accepted[i], 2) = 8388607 /\ WindowCode(accepted[i], 3) = 8388608
        /\ WindowCode(accepted[i], 4) = 16777215

(***************************************************************************)
(* Claims on the handshake                                                 *)
(***************************************************************************)
\* C19: as long as every handshake that has arrived had an altered checksum
\* byte, the timestamp reference is the power-on value or the fallback of
\* setup () and the baud rate is the one of Serial.begin (9600).
C19_BadChecksumRejected ==
    (\A i \in 1..Len(handshakes) : ~handshakes[i].sound) =>
        /\ unix_timestamp_reference \in {U32(0, 0), U32(22888, 12032)}
        /\ baud_rate = DEFAULT_BAUDRATE

\* C20: when the device runs loop () and has taken every byte sent to it,
\* and the handshake that arrived last was well-formed, the timestamp
\* reference is the timestamp of that handshake and, if its index names a
\* rate, the baud rate is that rate.
C20_EveryHandshakeApplied ==
    (dev_pc = "loop" /\ rx = <<>> /\ handshakes # <<>>
                    /\ handshakes[Len(handshakes)].sound) =>
        LET h == handshakes[Len(handshakes)]
        IN /\ unix_timestamp_reference = h.ts
           /\ (h.reg_addr = 1 /\ get_baud_rate_from_config(h.reg_val) > 0) =>
                 baud_rate = get_baud_rate_from_config(h.reg_val)

\* C21: a pass of loop () never comes back without a packet and without
\* having taken a byte: whenever 12 bytes or more are pending and the pass
\* finds a handshake (and so returns before the packet), it has moved at
\* least one pending byte into the ring.  With no more bytes arriving the
\* pending bytes run out and every dataReady is followed by a packet.
C21_PassEmitsOrConsumes ==
    (dev_pc = "loop" /\ Len(rx) >= 12 /\ WaitFound) => RingTake > 0

\* C22: the baud rate of the device is the rate of Serial.begin (9600) or
\* the rate the table gives for the index 0..7 of a handshake for register
\* 0x01 that has arrived; handshakes for register 0x01 with an index above
\* 7 and handshakes for any other register leave the rate as it was.
C22_BaudOnlyByRegister1 ==
    baud_rate \in {DEFAULT_BAUDRATE} \cup
        { get_baud_rate_from_config(handshakes[i].reg_val) :
            i \in {j \in 1..Len(handshakes) : /\ handshakes[j].reg_addr = 1
                                              /\ handshakes[j].reg_val \in 0..7} }

\* a handshake for register 2 with the index of 460800 has been processed
C22_Witness ==
    /\ dev_pc = "loop" /\ rx = <<>> /\ Len(handshakes) = 1
    /\ handshakes[1].reg_addr = 2 /\ handshakes[1].reg_val = 6
    /\ unix_timestamp_reference = handshakes[1].ts
    /\ baud_rate = DEFAULT_BAUDRATE

(***************************************************************************)
(* Claims on the scan of the host                                          *)
(***************************************************************************)
\* the read thread looks at the 37-byte window at buffer_pos
Candidate == rt_pc = "scan" /\ Len(buffer) >= buffer_pos + PACKET_TOTAL_SIZE

\* C23: a step of the scan at a candidate either delivers no row and moves
\* the offset forward by exactly 1, or delivers one row and moves the offset
\* forward by exactly 37, at once or, for the first row, after the state
\* was set and the waiter notified; nothing else moves the offset forward.
C23_AdvanceBy1Or37 ==
    [][ /\ (Candidate /\ <<thread, sink>>' # <<thread, sink>>) =>
              IF Len(samples') = Len(samples)
              THEN buffer_pos' = buffer_pos + 1 /\ rt_pc' = "scan"
              ELSE \/ buffer_pos' = buffer_pos + PACKET_TOTAL_SIZE /\ rt_pc' = "scan"
                   \/ buffer_pos' = buffer_pos /\ rt_pc' = "lock"
        /\ (rt_pc = "lock" /\ rt_pc' # "lock") => buffer_pos' = buffer_pos /\ rt_pc' = "notify"
        /\ (rt_pc = "notify" /\ rt_pc' # "notify") =>
              buffer_pos' = buffer_pos + PACKET_TOTAL_SIZE /\ rt_pc' = "scan"
        /\ (~Candidate /\ rt_pc \notin {"lock", "notify"}) => buffer_pos' <= buffer_pos
      ]_vars

\* garbage with a start marker was stepped over byte by byte and both
\* packets were taken, in the revision with the end-marker test
C23_Witness ==
    /\ rev = "part_000" /\ DecoderIdle
    /\ input.garbage = <<171, 205>> /\ Len(samples) = 2
    /\ accepted = <<WireOf(<<input.pkts[1]>>), WireOf(<<input.pkts[2]>>)>>

(***************************************************************************)
(* Claims on the start of the stream                                       *)
(***************************************************************************)
\* C24: once the read thread has delivered its first row while start_stream
\* waits, start_stream does not take its timeout branch: it leaves the wait
\* only by returning STATUS_OK with is_streaming set.
C24_NoLostWakeup ==
    [][ (c_pc = "start_wait" /\ rt_decoded /\ c_pc' # "start_wait") =>
            /\ c_pc' = "idle"
            /\ last'.op = "start_stream" /\ last'.code = "STATUS_OK"
            /\ is_streaming'
      ]_vars

(***************************************************************************)
(* Claims on the reads                                                     *)
(***************************************************************************)
\* the rows the scan of revision r delivers for the stream taken whole,
\* from offset pos on: the first offset at or behind pos whose window is
\* accepted gives a row, and the scan goes on 37 bytes behind it
RECURSIVE ScanWhole(_, _, _)
ScanWhole(r, stream, pos) ==
    LET hits == {q \in pos..(Len(stream) - PACKET_TOTAL_SIZE) : Accepts(r, stream, q)}
    IN IF hits = {} THEN <<>>
       ELSE <<DecodeSample(stream, Least(hits))>>
               \o ScanWhole(r, stream, Least(hits) + PACKET_TOTAL_SIZE)

\* C25: however the stream is split into reads (of 1 byte, of 37 bytes, in
\* any mix), the rows delivered are the first rows of the scan of the whole
\* stream, and all of them once every byte is read and scanned: the rows do
\* not depend on the split and a packet that came in several reads is
\* delivered once.
C25_ChunkingIndependent ==
    LET whole == ScanWhole(rev, input.garbage \o WireOf(input.pkts), 0)
    IN /\ IsPrefix(samples, whole)
       /\ DecoderIdle => samples = whole

\* the first packet came in two reads (1 byte, then 37: the buffer holds 38
\* bytes, which no single read returns) and has been delivered once
C25_Witness ==
    /\ input.garbage = <<>> /\ rt_pc = "scan"
    /\ Len(buffer) = PACKET_TOTAL_SIZE + 1 /\ buffer_pos = PACKET_TOTAL_SIZE
    /\ samples = <<TrueSample(input.pkts[1])>>

\* the bytes of the stream the scan has left behind
BytesPassed ==
    Len(input.garbage) + Len(input.pkts) * PACKET_TOTAL_SIZE
        - Len(wire) - (Len(buffer) - buffer_pos)

\* C26: a row is pushed only by a step of the scan at a window that passes
\* the tests, every such step pushes exactly one row, decoded from that
\* window and with 0 in the marker slot; the rows pushed never outnumber
\* the 37-byte stretches the scan has left behind or is standing on, so
\* no window is pushed twice.
C26_OnePushPerPacket ==
    /\ [][ /\ samples' # samples =>
                /\ Candidate /\ Accepts(rev, buffer, buffer_pos)
                /\ samples' = Append(samples, DecodeSample(buffer, buffer_pos))
                /\ samples'[Len(samples')].marker = 0
           /\ (Candidate /\ Accepts(rev, buffer, buffer_pos)
                         /\ <<thread, sink>>' # <<thread, sink>>) =>
                Len(samples') = Len(samples) + 1
         ]_vars
    /\ [](Len(samples) * PACKET_TOTAL_SIZE <=
             BytesPassed + IF rt_pc \in {"lock", "notify"} THEN PACKET_TOTAL_SIZE ELSE 0)
    /\ [](\A i \in 1..Len(samples) : samples[i].marker = 0)

\* 36 zero bytes of garbage were passed without a row, then both packets
\* gave one row each
C26_Witness ==
    /\ input.garbage = Zeros(36) /\ DecoderIdle
    /\ Len(samples) = 2 /\ BytesPassed = 36 + 2 * PACKET_TOTAL_SIZE
    /\ \A i \in 1..2 : samples[i].marker = 0

PacketTimestamp(w) ==
    U32(w[PACKET_IDX_TIMESTAMP + 1] * 256 + w[PACKET_IDX_TIMESTAMP + 2],
        w[PACKET_IDX_TIMESTAMP + 3] * 256 + w[PACKET_IDX_TIMESTAMP + 4])

\* the timestamps of the handshakes that have arrived
ArrivedTimestamps == {handshakes[i].ts : i \in 1..Len(handshakes)}

\* C28: every packet the device writes carries, modulo 2^32, the reference
\* plus the whole seconds passed since the reference was set; the reference
\* is set before the first packet; it is the fallback 1500000000 as long as
\* no handshake has arrived, and otherwise the fallback or the timestamp of
\* a handshake that has arrived, whatever its register address and value.
C28_TimestampFromReference ==
    /\ [][ wire' # wire =>
              /\ timestamp_initialized
              /\ Len(wire') = Len(wire) + PACKET_TOTAL_SIZE
              /\ PacketTimestamp(SubSeq(wire', Len(wire) + 1, Len(wire'))) =
                    U32Add(unix_timestamp_reference, elapsed)
         ]_vars
    /\ [](dev_pc = "loop" =>
             /\ timestamp_initialized
             /\ unix_timestamp_reference \in {U32(22888, 12032)} \cup ArrivedTimestamps
             /\ handshakes = <<>> => unix_timestamp_reference = U32(22888, 12032))

\* a handshake for register 2 set the reference, a second passed, and the
\* packet written carries the reference plus 1
C28_Witness ==
    /\ Len(handshakes) = 1 /\ handshakes[1].reg_addr = 2
    /\ unix_timestamp_reference = handshakes[1].ts /\ elapsed = 1
    /\ WrittenCount = 1 /\ PacketTimestamp(Written(0)) = U32Add(handshakes[1].ts, 1)

(***************************************************************************)
(* Claims on the baud rates                                                *)
(***************************************************************************)
BaudRates == <<9600, 19200, 38400, 57600, 115200, 230400, 460800, 921600>>

\* C29: for the bytes 0..7 the table of the host and the table of the
\* device give the same rate, 9600, 19200, 38400, 57600, 115200, 230400,
\* 460800, 921600 in this order; for every other byte the host returns -1
\* and the device 0, and the device that receives the byte in a handshake
\* for register 1 keeps its rate.
C29_BaudTablesAgree ==
    LET v == input.config_val
    IN /\ last.op = "get_baud_rate_from_config" =>
             last.code = IF v \in 0..7 THEN BaudRates[v + 1] ELSE -1
       /\ get_baud_rate_from_config(v) = IF v \in 0..7 THEN BaudRates[v + 1] ELSE 0
       /\ dev_pc = "loop" =>
             baud_rate = IF v \in 0..7 THEN BaudRates[v + 1] ELSE DEFAULT_BAUDRATE
       /\ (last.op = "get_baud_rate_from_config" /\ dev_pc = "loop" /\ v \in 0..7) =>
             baud_rate = last.code

C29_Witness ==
    /\ input.config_val = 7 /\ rev = "part_000"
    /\ last.op = "get_baud_rate_from_config" /\ last.code = 921600
    /\ dev_pc = "loop" /\ baud_rate = 921600

\* C30: when the last call was a prepare_session that returned STATUS_OK,
\* the rate of the host transport is the rate the table of the device
\* gives for the index the handshake of prepare_session carries.
C30_HostRateIsDeviceRate ==
    (last.op = "prepare_session" /\ last.code = "STATUS_OK") =>
        serial.baud = get_baud_rate_from_config(baud_config)

(***************************************************************************)
(* Claims on prepare_session                                               *)
(***************************************************************************)
\* the places of the transport call k among the calls st
StepsAt(st, k) == {i \in 1..Len(st) : st[i] = k}

\* C31: the transport calls of the last prepare_session begin with the
\* open; the default rate is set before the handshake, at most one
\* handshake is sent and none after the switch to the target rate, no
\* verification read comes before the switch; and a prepare_session that
\* returned STATUS_OK made all five calls: open, default rate, one
\* handshake for register 1, target rate, verification read.
C31_PrepareOrder ==
    last.op = "prepare_session" =>
        LET st == last.steps
        IN /\ st # <<>> /\ st[1] = "open"
           /\ \A i \in StepsAt(st, "default_baud"), j \in StepsAt(st, "send_reg1") : i < j
           /\ Cardinality(StepsAt(st, "send_reg1")) <= 1
           /\ \A i \in StepsAt(st, "send_reg1"), j \in StepsAt(st, "target_baud") : i < j
           /\ \A i \in StepsAt(st, "target_baud"), j \in StepsAt(st, "verify_read") : i < j
           /\ last.code = "STATUS_OK" =>
                 /\ Cardinality(StepsAt(st, "default_baud")) = 1
                 /\ Cardinality(StepsAt(st, "send_reg1")) = 1
                 /\ Cardinality(StepsAt(st, "target_baud")) = 1
                 /\ Cardinality(StepsAt(st, "verify_read")) = 1

(***************************************************************************)
(* Claims on the data-ready flag                                           *)
(***************************************************************************)
\* what the device holds besides the flag
DeviceButFlag ==
    <<dev_pc, ring_buffer, ring_head, ring_counter, unix_timestamp_reference,
      timestamp_initialized, elapsed, baud_rate, rx, line, wire>>

\* C32: the step that sets dataReady changes nothing else of the device and
\* can be taken between the clearing of the flag and the packet; the flag
\* is cleared only by a pass of loop () that found it set, that pass and no
\* other step writes a packet, exactly one, and a flag set after the clear
\* is still set when the packet is out.
C32_FlagHandshake ==
    [][ /\ (~dataReady /\ dataReady') => DeviceButFlag' = DeviceButFlag
        /\ (dataReady /\ ~dataReady') => dev_pc = "loop" /\ dev_pc' = "send" /\ wire' = wire
        /\ (dev_pc # "send" /\ dev_pc' = "send") => dataReady /\ ~dataReady'
        /\ wire' # wire =>
              /\ dev_pc = "send" /\ dev_pc' = "loop"
              /\ Len(wire') = Len(wire) + PACKET_TOTAL_SIZE
              /\ dataReady' = dataReady
        /\ (dev_pc = "send" /\ dev_pc' # "send") => Len(wire') = Len(wire) + PACKET_TOTAL_SIZE
      ]_vars

\* the interrupt fired after the flag was cleared, the packet went out and
\* the flag is there for the next pass
C32_Witness ==
    /\ dev_pc = "loop" /\ dataReady /\ WrittenCount = MaxSent

(***************************************************************************)
(* Claims on the ring of the device                                        *)
(***************************************************************************)
\* the next call of waitForTimestamp finds a handshake and applies it
PassApplies ==
    /\ dev_pc = "setup" \/ (dev_pc = "loop" /\ Len(rx) >= 12)
    /\ WaitFound

\* C33: a call of waitForTimestamp that applies a handshake does not apply
\* one that an earlier call has applied: when the ring held 12 bytes or
\* more before the call (so that the call before scanned it), the three
\* bytes AA BB 02 of the handshake applied now are not all among the bytes
\* the ring held already.
C33_AppliedAtMostOnce ==
    (PassApplies /\ ring_counter >= handshake_packet_size) =>
        Least(ScanHits(RingFilled)) + 2 >= ring_counter

\* the bytes the ring holds behind the first while of the next call of
\* waitForTimestamp: the positions 0 .. RingWritten - 1 have been written
RingWritten == ring_counter + RingTake

\* C34: a call of waitForTimestamp that applies a handshake reads the nine
\* bytes it uses (start marker, type, timestamp, register address and
\* value: positions first hit .. first hit + 8) from ring positions that a
\* received byte has been written to.
C34_ScannerReadsReceivedBytes ==
    PassApplies => Least(ScanHits(RingFilled)) + 8 < RingWritten

(***************************************************************************)
(* Claims on the transport the session holds                               *)
(***************************************************************************)
\* C35: in the definitive revision, when prepare_session has returned and
\* the session is initialized, the OSSerial object it holds is the one this
\* prepare_session opened: its port is open at the target rate and the
\* chunk read from it held the pair AB CD.
C35_InitializedMeansVerified ==
    (rev = "part_001" /\ last.op = "prepare_session" /\ initialized) =>
        /\ serial.alloc /\ serial.open /\ serial.baud = TARGET_BAUDRATE
        /\ last.verified

\* C36: in the definitive revision, when prepare_session has returned a
\* failure code the port of the OSSerial object it made is closed, and when
\* release_session has returned the session holds no OSSerial object.
C36_FailedPrepareClosesPort ==
    /\ (rev = "part_001" /\ last.op = "prepare_session" /\ last.code # "STATUS_OK") =>
            ~serial.open
    /\ (rev = "part_001" /\ last.op = "release_session") => serial = NULL

(***************************************************************************)
(* Claims on the read thread and the session flags                         *)
(***************************************************************************)
\* the read thread has been spawned and has not returned
ReadActivityAlive == rt_pc \notin {"none", "done", "crashed"}

\* C37: while is_streaming is set a read thread is alive: spawned and not
\* yet returned.
C37_StreamingMeansThreadAlive ==
    is_streaming => ReadActivityAlive

\* C38: while a read thread is running no step of the caller opens, writes
\* to, closes or deletes the transport: no prepare_session returns and the
\* OSSerial object stays as it is.
C38_TransportUntouchedWhileReading ==
    [][ ReadActivityAlive =>
          /\ serial' = serial
          /\ last' # last => last'.op # "prepare_session" ]_vars

(***************************************************************************)
(* Claims on the bounds of the scan buffer and of the ring                 *)
(***************************************************************************)
\* the most bytes one read can add: sizeof (read_chunk), READ_CHUNK_SIZE
ReadChunk == IF rev = "part_001" THEN READ_CHUNK_001 ELSE READ_CHUNK_SIZE

\* the thread is inside the inner while
ScanPcs == {"scan", "lock", "notify"}

\* what a step of the inner while lowers: the bytes not yet consumed, and
\* within one window the way from the test to buffer_pos += 37
ScanMeasure ==
    3 * (Len(buffer) - buffer_pos) +
        (CASE rt_pc = "scan" -> 2 [] rt_pc = "lock" -> 1 [] OTHER -> 0)

\* C39: between two scan passes fewer than 37 bytes of the buffer are
\* unconsumed; the buffer grows only by a read, by one chunk at most and
\* from fewer than 37 bytes, so it never holds more than 36 bytes and a
\* chunk; buffer_pos is never behind the end of the buffer and the 37 bytes
\* of a window that is decoded lie inside it; every step of the scan lowers
\* ScanMeasure, which is never negative: the scan ends.
C39_ScanBounded ==
    /\ [](/\ buffer_pos >= 0 /\ buffer_pos <= Len(buffer)
          /\ rt_pc \in {"loop", "read"} => Len(buffer) - buffer_pos < PACKET_TOTAL_SIZE
          /\ Len(buffer) <= PACKET_TOTAL_SIZE - 1 + ReadChunk
          /\ rt_pc \in {"lock", "notify"} => buffer_pos + PACKET_TOTAL_SIZE <= Len(buffer)
          /\ rt_pc \in ScanPcs => ScanMeasure >= 0)
    /\ [][ /\ Len(buffer') > Len(buffer) =>
                 /\ rt_pc = "read" /\ Len(buffer) < PACKET_TOTAL_SIZE
                 /\ Len(buffer') - Len(buffer) <= ReadChunk
           /\ (rt_pc \in ScanPcs /\ rt_pc' \in ScanPcs /\ thread' # thread) =>
                 ScanMeasure' < ScanMeasure ]_vars

\* a scan pass that consumed a packet has ended with 36 bytes left over
C39_Witness ==
    /\ rt_pc = "loop" /\ samples # <<>>
    /\ Len(buffer) - buffer_pos = PACKET_TOTAL_SIZE - 1

\* the ring positions the scan loop of waitForTimestamp computes: ring_index
\* for i below handshake_packet_size + 3, and ring_index + 1 .. ring_index + 8
ScanReads ==
    { (((ring_tail + i) % RING_BUFFER_SIZE) + k) % RING_BUFFER_SIZE :
        i \in 0..(handshake_packet_size + 3 - 1), k \in 0..8 }

\* C40: ring_counter is at most RING_BUFFER_SIZE, ring_head is below it, the
\* ring has RING_BUFFER_SIZE places, every position the scanner computes is
\* below RING_BUFFER_SIZE, and RING_BUFFER_SIZE is at least twice the
\* length of a handshake.
C40_RingBounded ==
    /\ ring_counter >= 0 /\ ring_counter <= RING_BUFFER_SIZE
    /\ ring_head >= 0 /\ ring_head < RING_BUFFER_SIZE
    /\ Len(ring_buffer) = RING_BUFFER_SIZE
    /\ \A p \in ScanReads : p >= 0 /\ p < RING_BUFFER_SIZE
    /\ RING_BUFFER_SIZE >= 2 * handshake_packet_size

\* the ring is full, ring_head has wrapped, and 12 bytes more are pending:
\* the next pass of loop () calls waitForTimestamp
C40_Witness ==
    /\ dev_pc = "loop" /\ ring_counter = RING_BUFFER_SIZE /\ ring_head = 0
    /\ Len(rx) >= handshake_packet_size

====
